---- MODULE Spec2Model ----
(***************************************************************************)
(* Model of web-ext's sign command (src/cmd/sign.js): the sign()           *)
(* orchestrator and the getIdFromFile() reader of the sidecar id file.     *)
(*                                                                         *)
(* JavaScript strings that are only tested for truthiness or passed        *)
(* through are TLA+ strings; the text of a file is a sequence of bytes on  *)
(* disk and a sequence of one-character strings once decoded.              *)
(***************************************************************************)
EXTENDS Naturals, Sequences, FiniteSets, TLC

----------------------------------------------------------------------------
(* JavaScript values *)

\* The value `undefined` (an omitted parameter, a function that returns
\* nothing, lines[0] of an empty array).
undefined == "undefined"

\* JavaScript truthiness of a string-or-undefined value, as tested by
\* `if (id)`, `!channel`, `if (amoMetadata)`.
Truthy(v) == v # undefined /\ v # ""

\* Error objects: the class, the `code` property (undefined when the error
\* has none) and the message.  A message is a template name with the ids
\* and the path interpolated into it.
Message(text, ids, filePath) == [text |-> text, ids |-> ids, path |-> filePath]

UsageError(message) == [type |-> "UsageError", code |-> undefined, message |-> message]

WebExtError(message) == [type |-> "WebExtError", code |-> undefined, message |-> message]

Error(message) == [type |-> "Error", code |-> undefined, message |-> message]

\* An error of the file system: a plain Error with a `code`.
FsError(code) == [type |-> "Error", code |-> code, message |-> Message(code, <<>>, "")]

\* isErrorWithCode(codeWanted, error) of ../errors.js.
isErrorWithCode(codeWanted, error) == error.code = codeWanted

\* The outcome of a call: it returns a value or throws an error.
Return(value) == [throws |-> FALSE, value |-> value]

Throw(error) == [throws |-> TRUE, error |-> error]

----------------------------------------------------------------------------
(* Text *)

\* The characters of the model's files and their byte on disk (ASCII).
CharCode == (" " :> 32) @@ ("\t" :> 9) @@ ("\n" :> 10) @@ ("#" :> 35) @@
            ("a" :> 97) @@ ("b" :> 98) @@ ("{" :> 123) @@ ("}" :> 125)

Chars == DOMAIN CharCode

\* The characters String.prototype.trim() removes.
WhiteSpace == {" ", "\t", "\n"}

\* Buffer.prototype.toString(): decodes the bytes into characters.
toString(buffer) ==
    [i \in 1..Len(buffer) |-> CHOOSE c \in Chars : CharCode[c] = buffer[i]]

\* The bytes a text is written as.
Encode(text) == [i \in 1..Len(text) |-> CharCode[text[i]]]

\* The TLA+ string of a sequence of characters, and the characters of a
\* TLA+ string.
RECURSIVE Str(_)
Str(text) == IF text = <<>> THEN "" ELSE Head(text) \o Str(Tail(text))

TextOf(string) == CHOOSE text \in [1..Len(string) -> Chars] : Str(text) = string

\* String.prototype.split('\n'): the pieces between the newlines; the empty
\* text splits into one empty line.
RECURSIVE split(_)
split(text) ==
    IF \E i \in 1..Len(text) : text[i] = "\n"
    THEN LET i == CHOOSE k \in 1..Len(text) :
                     text[k] = "\n" /\ \A j \in 1..(k - 1) : text[j] # "\n"
         IN  <<SubSeq(text, 1, i - 1)>> \o split(SubSeq(text, i + 1, Len(text)))
    ELSE <<text>>

RECURSIVE trimStart(_)
trimStart(text) ==
    IF text # <<>> /\ Head(text) \in WhiteSpace THEN trimStart(Tail(text)) ELSE text

RECURSIVE trimEnd(_)
trimEnd(text) ==
    IF text # <<>> /\ text[Len(text)] \in WhiteSpace
    THEN trimEnd(SubSeq(text, 1, Len(text) - 1))
    ELSE text

\* String.prototype.trim().
trim(text) == trimEnd(trimStart(text))

\* String.prototype.startsWith('#').
startsWithHash(text) == text # <<>> /\ Head(text) = "#"

----------------------------------------------------------------------------
(* getIdFromFile *)

\* The callback of lines.filter() without the test for comments.
filterCallbackKeepingComments(line) == trim(line) # <<>>

\* The callback of lines.filter(): it trims its own copy of the line and
\* returns it (truthy) when it is not empty and not a comment; filter()
\* keeps the element of the array, not the callback's value.
filterCallback(line) ==
    LET trimmed == trim(line)
    IN  trimmed # <<>> /\ ~startsWithHash(trimmed)

\* asyncFsReadFile(filePath): the file system holds, for a path, either the
\* bytes of the file or the error the read fails with.
asyncFsReadFile(fileSystem, filePath) ==
    IF fileSystem[filePath].readable
    THEN Return(fileSystem[filePath].content)
    ELSE Throw(fileSystem[filePath].error)

\* getIdFromFile without the test of the error's code: every failed read
\* counts as a missing file.
getIdFromFileIgnoringCode(fileSystem, filePath) ==
    LET read == asyncFsReadFile(fileSystem, filePath)
    IN  IF read.throws
        THEN Return(undefined)
        ELSE LET lines == SelectSeq(split(toString(read.value)), filterCallback)
                 id == IF lines = <<>> THEN undefined ELSE Str(lines[1])
             IN  IF ~Truthy(id)
                 THEN Throw(UsageError(Message("No ID found in extension ID file", <<>>, filePath)))
                 ELSE Return(id)

\* getIdFromFile(filePath): undefined when the file does not exist, the
\* first line that survives the filter otherwise.
getIdFromFile(fileSystem, filePath) ==
    LET read == asyncFsReadFile(fileSystem, filePath)
    IN  IF read.throws
        THEN IF isErrorWithCode("ENOENT", read.error)
             THEN Return(undefined)
             ELSE Throw(read.error)
        ELSE LET lines == SelectSeq(split(toString(read.value)), filterCallback)
                 id == IF lines = <<>> THEN undefined ELSE Str(lines[1])
             IN  IF ~Truthy(id)
                 THEN Throw(UsageError(Message("No ID found in extension ID file", <<>>, filePath)))
                 ELSE Return(id)

----------------------------------------------------------------------------
(* Collaborators of sign() *)

\* path.join(sourceDir, extensionIdFile).
extensionIdFile == ".web-extension-id"

pathJoin(dir, name) == dir \o "/" \o name

\* getManifestId(manifestData) of ../util/manifest.js: the id the manifest
\* declares, undefined when it declares none.
getManifestId(manifestData) == manifestData.id

\* JSON.parse(text).  Of the texts over Chars the only JSON documents are
\* the empty object with optional white space around its braces; any other
\* text throws a SyntaxError.
JSONparse(text) ==
    IF SelectSeq(text, LAMBDA c : c \notin WhiteSpace) = <<"{", "}">>
    THEN Return("EmptyObject")
    ELSE Throw([type |-> "SyntaxError", code |-> undefined,
                message |-> Message("Unexpected token in JSON", <<>>, "")])

\* A log line: createLogger()'s debug/info/warn.
LogLine(level, text, ids) == [level |-> level, message |-> Message(text, ids, "")]

\* Promises, and the place of one that has not been created yet.
NotStarted == [state |-> "notStarted"]

Pending == [state |-> "pending"]

Fulfilled(value) == [state |-> "fulfilled", value |-> value]

Rejected(error) == [state |-> "rejected", error |-> error]

Settled(result) == IF result.throws THEN Rejected(result.error) ELSE Fulfilled(result.value)

----------------------------------------------------------------------------
(* sign(): the synchronous checks between the awaits *)

\* Line 104 left out: a custom id is taken whatever the backend.
customIdNeverNeedsManifestId(useSubmissionApi, id, manifestId) == FALSE

\* Line 104: a custom id cannot be given to the submission API unless the
\* manifest declares an id.
customIdNeedsManifestId(useSubmissionApi, id, manifestId) ==
    useSubmissionApi /\ Truthy(id) /\ ~Truthy(manifestId)

\* Line 117 comparing the two ids: the same id given twice is accepted.
idDiffersFromManifestId(id, manifestId) ==
    Truthy(id) /\ Truthy(manifestId) /\ id # manifestId

\* Line 117: a custom id and an id in the manifest exclude each other.
idConflictsWithManifestId(id, manifestId) == Truthy(id) /\ Truthy(manifestId)

\* Line 110 left out: a saved id is taken whatever the backend.
savedIdNeverNeedsManifestId(useSubmissionApi, idFromSourceDir, manifestId) == FALSE

\* Line 110: a previously saved id cannot be used with the submission API
\* unless the manifest declares an id.
savedIdNeedsManifestId(useSubmissionApi, idFromSourceDir, manifestId) ==
    useSubmissionApi /\ Truthy(idFromSourceDir) /\ ~Truthy(manifestId)

\* Lines 104-140: the checks of the three id sources and the assignments to
\* the local `id`.  Returns the id handed on and the lines logged, or throws.
resolveId(useSubmissionApi, id, manifestId, idFromSourceDir) ==
    IF customIdNeedsManifestId(useSubmissionApi, id, manifestId)
    THEN Throw(UsageError(Message(
             "Cannot set custom ID - addon submission API requires a custom ID be specified in the manifest",
             <<id>>, "")))
    ELSE IF savedIdNeedsManifestId(useSubmissionApi, idFromSourceDir, manifestId)
    THEN Throw(UsageError(Message(
             "Cannot use previously auto-generated extension ID - addon submission API requires a custom ID be specified in the manifest",
             <<idFromSourceDir>>, "")))
    ELSE IF idConflictsWithManifestId(id, manifestId)
    THEN Throw(UsageError(Message(
             "Cannot set custom ID because manifest.json declares ID",
             <<id, manifestId>>, "")))
    ELSE LET log1 == IF Truthy(id)
                     THEN <<LogLine("debug", "Using custom ID declared as --id", <<id>>)>>
                     ELSE <<>>
             id1 == IF Truthy(manifestId) THEN manifestId ELSE id
             usesSaved == ~Truthy(id1) /\ Truthy(idFromSourceDir)
             log2 == IF usesSaved
                     THEN <<LogLine("info", "Using previously auto-generated extension ID",
                                    <<idFromSourceDir>>)>>
                     ELSE <<>>
             id2 == IF usesSaved THEN idFromSourceDir ELSE id1
             log3 == IF ~Truthy(id2)
                     THEN <<LogLine("warn", "No extension ID specified (it will be auto-generated)",
                                    <<>>)>>
                     ELSE <<>>
         IN  Return([id |-> id2, logs |-> log1 \o log2 \o log3])

\* Lines 142-154 with the two checks in the other order.
checkSubmissionParamsProxyFirst(useSubmissionApi, channel, apiProxy) ==
    IF useSubmissionApi /\ Truthy(apiProxy)
    THEN Throw(UsageError(Message(
             "apiProxy isn't yet supported for the addon submission API", <<>>, "")))
    ELSE IF useSubmissionApi /\ ~Truthy(channel)
    THEN Throw(UsageError(Message(
             "channel is a required parameter for the addon submission API", <<>>, "")))
    ELSE Return(undefined)

\* Lines 148-154 left out: apiProxy is handed on unchecked.
checkSubmissionParamsWithoutProxy(useSubmissionApi, channel, apiProxy) ==
    IF useSubmissionApi /\ ~Truthy(channel)
    THEN Throw(UsageError(Message(
             "channel is a required parameter for the addon submission API", <<>>, "")))
    ELSE Return(undefined)

\* Lines 142-154: what the submission API requires of channel and apiProxy.
checkSubmissionParams(useSubmissionApi, channel, apiProxy) ==
    IF useSubmissionApi /\ ~Truthy(channel)
    THEN Throw(UsageError(Message(
             "channel is a required parameter for the addon submission API", <<>>, "")))
    ELSE IF useSubmissionApi /\ Truthy(apiProxy)
    THEN Throw(UsageError(Message(
             "apiProxy isn't yet supported for the addon submission API", <<>>, "")))
    ELSE Return(undefined)

\* Lines 156-164 with the read inside the try block: a failed read is
\* reported like a failed parse.
readMetadataInsideTry(fileSystem, amoMetadata) ==
    IF ~Truthy(amoMetadata)
    THEN Return(undefined)
    ELSE LET read == asyncFsReadFile(fileSystem, amoMetadata)
             parsed == JSONparse(toString(read.value))
         IN  IF read.throws \/ parsed.throws
             THEN Throw(UsageError(Message("Invalid JSON in listing metadata", <<>>, "")))
             ELSE Return(parsed.value)

\* Lines 156-164: the listing metadata.  A failed read is thrown as it is;
\* only the failure of JSON.parse becomes the usage error.
readMetadata(fileSystem, amoMetadata) ==
    IF ~Truthy(amoMetadata)
    THEN Return(undefined)
    ELSE LET read == asyncFsReadFile(fileSystem, amoMetadata)
         IN  IF read.throws
             THEN Throw(read.error)
             ELSE LET parsed == JSONparse(toString(read.value))
                  IN  IF parsed.throws
                      THEN Throw(UsageError(Message("Invalid JSON in listing metadata", <<>>, "")))
                      ELSE Return(parsed.value)

----------------------------------------------------------------------------
(* State *)

VARIABLES
    params,        \* SignParams: useSubmissionApi, id, channel, apiProxy, amoMetadata,
                   \* sourceDir, artifactsDir
    options,       \* SignOptions: whether preValidatedManifest is given
    manifest,      \* the manifest of the extension in sourceDir
    fileSystem,    \* path -> the file's bytes, or the error reading it fails with
    pc,            \* where the async callback of sign() stands
    tmpDir,        \* the temporary directory of withTempDir: "none", "created", "removed"
    manifestData,  \* local manifestData
    buildTask,     \* the promise of build(...)
    idTask,        \* the promise of getIdFromFile(savedIdPath)
    signTask,      \* the promise of the call to signAddon or submitAddon
    saveTask,      \* the promise of the call to saveIdToFile at line 205
    id,            \* local id (the parameter, reassigned at lines 128 and 135)
    metaDataJson,  \* local metaDataJson
    result,        \* local result
    calls,         \* the calls made to signAddon and submitAddon, in order
    saved,         \* the calls made to saveIdToFile, in order, and who made them
    logs,          \* the lines logged by sign(), in order
    callback,      \* the promise of the async callback passed to withTempDir
    outcome        \* the promise sign() returns

vars == <<params, options, manifest, fileSystem, pc, tmpDir, manifestData, buildTask,
          idTask, signTask, saveTask, id, metaDataJson, result, calls, saved, logs, callback,
          outcome>>

\* Line 86.
savedIdPath == pathJoin(params.sourceDir, extensionIdFile)

\* Line 94: the values Promise.all destructures.
buildResult == buildTask.value

idFromSourceDir == idTask.value

\* Line 102.
manifestId == getManifestId(manifestData)

----------------------------------------------------------------------------
(* Inputs *)

ReadableFile(text) == [readable |-> TRUE, content |-> Encode(text)]

UnreadableFile(error) == [readable |-> FALSE, error |-> error]

\* The errors a read fails with: no such file, another code, no code at all.
ReadErrors == {FsError("ENOENT"), FsError("EACCES"),
               Error(Message("read failed", <<>>, ""))}

\* The sidecar id files sign() is run against.
SavedIdFiles ==
    {UnreadableFile(e) : e \in ReadErrors} \cup
    {ReadableFile(t) : t \in {<<"a", "b", "\n">>,
                              <<"#", " ", "a", "\n", "\n">>,
                              <<" ", "a", "b", " ", "\n">>,
                              <<" ", "#", "\n", "\n", "a", "b", "\n", "b", "\n">>}}

\* The listing metadata files.
MetadataFiles ==
    {UnreadableFile(FsError("ENOENT")),
     ReadableFile(<<"{", " ", "}", "\n">>),
     ReadableFile(<<"{", "a">>)}

metadataPath == "meta.json"

CliIds == {undefined, "", "a", "b"}

ManifestIds == {undefined, "b"}

\* The errors the collaborators (build, signAddon, submitAddon, saveIdToFile,
\* prepareArtifactsDir, getValidatedManifest) fail with.
CollaboratorErrors == {Error(Message("request failed", <<>>, "")), FsError("EIO"),
                       UsageError(Message("invalid argument", <<>>, ""))}

\* The ids a signing backend answers with: the id it was given, or one the
\* server generated.
ReturnedIds(givenId) == {"ba"} \cup (IF Truthy(givenId) THEN {givenId} ELSE {})

Idle ==
    /\ tmpDir = "none"
    /\ manifestData = [id |-> undefined, version |-> undefined]
    /\ buildTask = NotStarted
    /\ idTask = NotStarted
    /\ signTask = NotStarted
    /\ saveTask = NotStarted
    /\ metaDataJson = undefined
    /\ result = undefined
    /\ calls = <<>>
    /\ saved = <<>>
    /\ logs = <<>>
    /\ callback = Pending
    /\ outcome = Pending

Init ==
    /\ params \in [useSubmissionApi : BOOLEAN, id : CliIds,
                    channel : {undefined, "listed"},
                    apiProxy : {undefined, "http://proxy"},
                    amoMetadata : {undefined, metadataPath},
                    sourceDir : {"src"}, artifactsDir : {"artifacts"}]
    /\ options \in [preValidatedManifest : BOOLEAN]
    /\ manifest \in [id : ManifestIds, version : {"1.0"}]
    /\ \E idFile \in SavedIdFiles, metadataFile \in MetadataFiles :
          /\ Truthy(params.amoMetadata) \/ ~metadataFile.readable
          /\ fileSystem = (savedIdPath :> idFile) @@ (metadataPath :> metadataFile)
    /\ pc = "withTempDir"
    /\ id = params.id
    /\ Idle

----------------------------------------------------------------------------
(* sign() *)

\* A throw in the async callback: its promise rejects with the error.
Reject(error) ==
    /\ callback' = Rejected(error)
    /\ pc' = "exited"

\* withTempDir(...), line 82: the temporary directory is created and the
\* callback is started.
WithTempDir ==
    /\ pc = "withTempDir"
    /\ tmpDir' = "created"
    /\ pc' = "prepareArtifactsDir"
    /\ UNCHANGED <<params, options, manifest, fileSystem, manifestData, buildTask, idTask,
                   signTask, saveTask, id, metaDataJson, result, calls, saved, logs, callback,
                   outcome>>

\* Line 83: await prepareArtifactsDir(artifactsDir).
PrepareArtifactsDir ==
    /\ pc = "prepareArtifactsDir"
    /\ \/ pc' = "manifest" /\ UNCHANGED callback
       \/ \E e \in CollaboratorErrors : Reject(e)
    /\ UNCHANGED <<params, options, manifest, fileSystem, tmpDir, manifestData, buildTask,
                   idTask, signTask, saveTask, id, metaDataJson, result, calls, saved, logs,
                   outcome>>

\* Lines 88-92: the manifest given by the caller, or the one
\* getValidatedManifest(sourceDir) reads.
GetManifest ==
    /\ pc = "manifest"
    /\ \/ /\ manifestData' = manifest
          /\ pc' = "promiseAll"
          /\ UNCHANGED callback
       \/ /\ ~options.preValidatedManifest
          /\ \E e \in CollaboratorErrors : Reject(e)
          /\ UNCHANGED manifestData
    /\ UNCHANGED <<params, options, manifest, fileSystem, tmpDir, buildTask, idTask, signTask,
                   saveTask, id, metaDataJson, result, calls, saved, logs, outcome>>

\* Lines 94-100: build(...) and getIdFromFile(savedIdPath) are both started,
\* then the callback awaits Promise.all of the two.
StartBuildAndIdRead ==
    /\ pc = "promiseAll"
    /\ buildTask' = Pending
    /\ idTask' = Pending
    /\ pc' = "awaitAll"
    /\ UNCHANGED <<params, options, manifest, fileSystem, tmpDir, manifestData, signTask,
                   saveTask, id, metaDataJson, result, calls, saved, logs, callback, outcome>>

\* Promise.race in the place of Promise.all: the callback goes on as soon as
\* one of the two has fulfilled.
PromiseRaceStep(settled, other) ==
    IF pc # "awaitAll"
    THEN UNCHANGED <<pc, callback>>
    ELSE IF settled.state = "rejected"
    THEN Reject(settled.error)
    ELSE pc' = "resolveId" /\ UNCHANGED callback

\* Promise.all([build, idRead]) when one of the two settles as `settled` and
\* the other stands as `other`: it rejects with the first rejection, fulfils
\* when both have fulfilled, and has nobody waiting once the callback has
\* exited.
PromiseAllStep(settled, other) ==
    IF pc # "awaitAll"
    THEN UNCHANGED <<pc, callback>>
    ELSE IF settled.state = "rejected"
    THEN Reject(settled.error)
    ELSE IF other.state = "fulfilled"
    THEN pc' = "resolveId" /\ UNCHANGED callback
    ELSE UNCHANGED <<pc, callback>>

\* The build settles: with the path of the package, or with an error.
BuildSettles ==
    /\ buildTask.state = "pending"
    /\ \E settled \in {Fulfilled([extensionPath |-> "tmp/extension.zip"])} \cup
                       {Rejected(e) : e \in CollaboratorErrors} :
          /\ buildTask' = settled
          /\ PromiseAllStep(settled, idTask)
    /\ UNCHANGED <<params, options, manifest, fileSystem, tmpDir, manifestData, idTask,
                   signTask, saveTask, id, metaDataJson, result, calls, saved, logs, outcome>>

\* getIdFromFile(savedIdPath) settles.
IdReadSettles ==
    /\ idTask.state = "pending"
    /\ LET settled == Settled(getIdFromFile(fileSystem, savedIdPath))
       IN  /\ idTask' = settled
           /\ PromiseAllStep(settled, buildTask)
    /\ UNCHANGED <<params, options, manifest, fileSystem, tmpDir, manifestData, buildTask,
                   signTask, saveTask, id, metaDataJson, result, calls, saved, logs, outcome>>

\* Lines 102-140.
ResolveId ==
    /\ pc = "resolveId"
    /\ LET resolved == resolveId(params.useSubmissionApi, id, manifestId, idFromSourceDir)
       IN  IF resolved.throws
           THEN Reject(resolved.error) /\ UNCHANGED <<id, logs>>
           ELSE /\ id' = resolved.value.id
                /\ logs' = logs \o resolved.value.logs
                /\ pc' = "checkSubmissionParams"
                /\ UNCHANGED callback
    /\ UNCHANGED <<params, options, manifest, fileSystem, tmpDir, manifestData, buildTask,
                   idTask, signTask, saveTask, metaDataJson, result, calls, saved, outcome>>

\* Lines 142-154.
CheckSubmissionParams ==
    /\ pc = "checkSubmissionParams"
    /\ LET checked == checkSubmissionParams(params.useSubmissionApi, params.channel,
                                            params.apiProxy)
       IN  IF checked.throws
           THEN Reject(checked.error)
           ELSE pc' = "metadata" /\ UNCHANGED callback
    /\ UNCHANGED <<params, options, manifest, fileSystem, tmpDir, manifestData, buildTask,
                   idTask, signTask, saveTask, id, metaDataJson, result, calls, saved, logs,
                   outcome>>

\* Lines 156-164.
ReadMetadata ==
    /\ pc = "metadata"
    /\ LET read == readMetadata(fileSystem, params.amoMetadata)
       IN  IF read.throws
           THEN Reject(read.error) /\ UNCHANGED metaDataJson
           ELSE /\ metaDataJson' = read.value
                /\ pc' = "dispatch"
                /\ UNCHANGED callback
    /\ UNCHANGED <<params, options, manifest, fileSystem, tmpDir, manifestData, buildTask,
                   idTask, signTask, saveTask, id, result, calls, saved, logs, outcome>>

\* Lines 166-174: signSubmitArgs.
signSubmitArgs ==
    [id |-> id, xpiPath |-> buildResult.extensionPath,
     downloadDir |-> params.artifactsDir, channel |-> params.channel]

\* Lines 178-198: the one call to a signing backend, chosen by
\* useSubmissionApi, with the arguments it is given.
backendCall ==
    IF params.useSubmissionApi
    THEN [fn |-> "submitAddon", id |-> signSubmitArgs.id, xpiPath |-> signSubmitArgs.xpiPath,
          downloadDir |-> signSubmitArgs.downloadDir, channel |-> params.channel,
          savedIdPath |-> savedIdPath, metaDataJson |-> metaDataJson,
          apiProxy |-> undefined, version |-> undefined]
    ELSE [fn |-> "signAddon", id |-> signSubmitArgs.id, xpiPath |-> signSubmitArgs.xpiPath,
          downloadDir |-> signSubmitArgs.downloadDir, channel |-> signSubmitArgs.channel,
          savedIdPath |-> undefined, metaDataJson |-> undefined,
          apiProxy |-> params.apiProxy, version |-> manifestData.version]

Dispatch ==
    /\ pc = "dispatch"
    /\ calls' = Append(calls, backendCall)
    /\ signTask' = Pending
    /\ pc' = "awaitBackend"
    /\ UNCHANGED <<params, options, manifest, fileSystem, tmpDir, manifestData, buildTask,
                   idTask, saveTask, id, metaDataJson, result, saved, logs, callback, outcome>>

\* The catch clause trying the dispatch once more instead of throwing.
CatchAndRetry(clientError) ==
    /\ logs' = Append(logs, LogLine("info", "FAIL", <<>>))
    /\ pc' = "dispatch"
    /\ UNCHANGED callback

\* The catch clause without its log line.
CatchWithoutLog(clientError) ==
    /\ UNCHANGED logs
    /\ Reject(WebExtError(clientError.message))

\* The catch clause with a message of its own.
CatchWithOwnMessage(clientError) ==
    /\ logs' = Append(logs, LogLine("info", "FAIL", <<>>))
    /\ Reject(WebExtError(Message("Signing failed", <<>>, "")))

\* The catch clause throwing what it caught instead of a new WebExtError.
CatchAndRethrow(clientError) ==
    /\ logs' = Append(logs, LogLine("info", "FAIL", <<>>))
    /\ Reject(clientError)

\* Lines 209-212: the catch clause of the dispatch.
Catch(clientError) ==
    /\ logs' = Append(logs, LogLine("info", "FAIL", <<>>))
    /\ Reject(WebExtError(clientError.message))

\* Line 199 left out: every answer of signAddon counts as signed.
alwaysSigned(success) == FALSE

\* Line 199: whether the answer of signAddon is a failure.
notSigned(success) == ~success

\* Line 205 saving the id that was sent instead of the id that came back.
localIdToSave(newId, localId) == localId

\* Line 205: the id saveIdToFile is called with, of the id signAddon
\* returned and the local id it was given.
idToSave(newId, localId) == newId

\* saveIdToFile(filePath, id) of ../util/submit-addon.js: the file holds the id.
saveIdToFile(files, filePath, newId) ==
    [files EXCEPT ![filePath] = ReadableFile(TextOf(newId))]

\* The backend throws: lines 209-212.
BackendThrows ==
    /\ pc = "awaitBackend"
    /\ \E e \in CollaboratorErrors :
          /\ signTask' = Rejected(e)
          /\ Catch(e)
    /\ UNCHANGED <<params, options, manifest, fileSystem, tmpDir, manifestData, buildTask,
                   idTask, saveTask, id, metaDataJson, result, calls, saved, outcome>>

\* The submission branch saving the id as the legacy branch does.
SubmitAddonReturnsAndSaves ==
    /\ pc = "awaitBackend"
    /\ params.useSubmissionApi
    /\ \E newId \in ReturnedIds(id) :
          /\ signTask' = Fulfilled([id |-> newId, downloadedFiles |-> <<"signed.xpi">>])
          /\ saved' = saved \o <<[by |-> "submitAddon", filePath |-> savedIdPath, id |-> newId],
                                  [by |-> "sign", filePath |-> savedIdPath, id |-> newId]>>
          /\ fileSystem' = saveIdToFile(fileSystem, savedIdPath, newId)
    /\ result' = signTask'.value
    /\ saveTask' = Pending
    /\ pc' = "awaitSave"
    /\ UNCHANGED <<params, options, manifest, tmpDir, manifestData, buildTask, idTask, id,
                   metaDataJson, calls, logs, callback, outcome>>

\* Lines 179-186, 214: submitAddon returns; it has saved the id itself.
SubmitAddonReturns ==
    /\ pc = "awaitBackend"
    /\ params.useSubmissionApi
    /\ \E newId \in ReturnedIds(id) :
          /\ signTask' = Fulfilled([id |-> newId, downloadedFiles |-> <<"signed.xpi">>])
          /\ saved' = Append(saved, [by |-> "submitAddon", filePath |-> savedIdPath,
                                     id |-> newId])
          /\ fileSystem' = saveIdToFile(fileSystem, savedIdPath, newId)
    /\ result' = signTask'.value
    /\ callback' = Fulfilled(result')
    /\ pc' = "exited"
    /\ UNCHANGED <<params, options, manifest, tmpDir, manifestData, buildTask, idTask, saveTask,
                   id, metaDataJson, calls, logs, outcome>>

\* Lines 188-205: signAddon returns {success, id, downloadedFiles}.
SignAddonReturns ==
    /\ pc = "awaitBackend"
    /\ ~params.useSubmissionApi
    /\ \E success \in BOOLEAN, newId \in ReturnedIds(id) :
          /\ signTask' = Fulfilled([success |-> success, id |-> newId,
                                    downloadedFiles |-> <<"signed.xpi">>])
          /\ IF notSigned(success)
             THEN /\ Catch(Error(Message("The extension could not be signed", <<>>, "")))
                  /\ UNCHANGED <<result, saved, saveTask>>
             ELSE /\ result' = [id |-> newId, downloadedFiles |-> <<"signed.xpi">>]
                  /\ saved' = Append(saved, [by |-> "sign", filePath |-> savedIdPath,
                                             id |-> idToSave(newId, id)])
                  /\ saveTask' = Pending
                  /\ pc' = "awaitSave"
                  /\ UNCHANGED <<logs, callback>>
    /\ UNCHANGED <<params, options, manifest, fileSystem, tmpDir, manifestData, buildTask,
                   idTask, id, metaDataJson, calls, outcome>>

\* Line 205 without its await: the id and SUCCESS are logged and the result
\* is returned whether saveIdToFile writes the file or fails.
SaveIdNotAwaited ==
    /\ pc = "awaitSave"
    /\ \/ /\ saveTask' = Fulfilled(undefined)
          /\ fileSystem' = saveIdToFile(fileSystem, saved[Len(saved)].filePath,
                                         saved[Len(saved)].id)
       \/ /\ \E e \in CollaboratorErrors : saveTask' = Rejected(e)
          /\ UNCHANGED fileSystem
    /\ logs' = logs \o <<LogLine("info", "Extension ID", <<result.id>>),
                          LogLine("info", "SUCCESS", <<>>)>>
    /\ callback' = Fulfilled(result)
    /\ pc' = "exited"
    /\ UNCHANGED <<params, options, manifest, tmpDir, manifestData, buildTask, idTask, signTask,
                   id, metaDataJson, result, calls, saved, outcome>>

\* Lines 205-207, 214: saveIdToFile settles; the id and SUCCESS are logged
\* once it has written the file, and its failure is caught like the backend's.
SaveIdSettles ==
    /\ pc = "awaitSave"
    /\ \/ /\ saveTask' = Fulfilled(undefined)
          /\ fileSystem' = saveIdToFile(fileSystem, saved[Len(saved)].filePath,
                                         saved[Len(saved)].id)
          /\ logs' = logs \o <<LogLine("info", "Extension ID", <<result.id>>),
                                LogLine("info", "SUCCESS", <<>>)>>
          /\ callback' = Fulfilled(result)
          /\ pc' = "exited"
       \/ /\ \E e \in CollaboratorErrors :
                /\ saveTask' = Rejected(e)
                /\ Catch(e)
          /\ UNCHANGED fileSystem
    /\ UNCHANGED <<params, options, manifest, tmpDir, manifestData, buildTask, idTask, signTask,
                   id, metaDataJson, result, calls, saved, outcome>>

\* withTempDir removing the directory only after a callback that succeeded.
RemoveTempDirOnSuccess ==
    /\ callback.state # "pending"
    /\ outcome.state = "pending"
    /\ tmpDir' = IF callback.state = "fulfilled" THEN "removed" ELSE tmpDir
    /\ outcome' = callback
    /\ UNCHANGED <<params, options, manifest, fileSystem, pc, manifestData, buildTask, idTask,
                   signTask, saveTask, id, metaDataJson, result, calls, saved, logs, callback>>

\* withTempDir of ../util/temp-dir.js: once the callback's promise has
\* settled the directory is removed, and sign()'s promise settles as the
\* callback's did.
RemoveTempDir ==
    /\ callback.state # "pending"
    /\ outcome.state = "pending"
    /\ tmpDir' = "removed"
    /\ outcome' = callback
    /\ UNCHANGED <<params, options, manifest, fileSystem, pc, manifestData, buildTask, idTask,
                   signTask, saveTask, id, metaDataJson, result, calls, saved, logs, callback>>

Next ==
    \/ WithTempDir
    \/ PrepareArtifactsDir
    \/ GetManifest
    \/ StartBuildAndIdRead
    \/ BuildSettles
    \/ IdReadSettles
    \/ ResolveId
    \/ CheckSubmissionParams
    \/ ReadMetadata
    \/ Dispatch
    \/ BackendThrows
    \/ SubmitAddonReturns
    \/ SignAddonReturns
    \/ SaveIdSettles
    \/ RemoveTempDir

Spec == Init /\ [][Next]_vars

----------------------------------------------------------------------------
(* getIdFromFile() on its own, over every small file *)

\* The longest file text.
MaxLen == 3

\* The characters of the id files.
IdFileChars == {" ", "\n", "#", "a", "b"}

IdFileTexts == UNION {[1..n -> IdFileChars] : n \in 0..MaxLen}

FileInit ==
    /\ params = [useSubmissionApi |-> FALSE, id |-> undefined, channel |-> undefined,
                 apiProxy |-> undefined, amoMetadata |-> undefined,
                 sourceDir |-> "src", artifactsDir |-> "artifacts"]
    /\ options = [preValidatedManifest |-> FALSE]
    /\ manifest = [id |-> undefined, version |-> "1.0"]
    /\ \E idFile \in {UnreadableFile(e) : e \in ReadErrors} \cup
                      {ReadableFile(t) : t \in IdFileTexts} :
          fileSystem = (savedIdPath :> idFile)
    /\ pc = "getIdFromFile"
    /\ id = undefined
    /\ Idle

\* A call of getIdFromFile(savedIdPath), from its start to its settling.
GetIdFromFile ==
    /\ pc = "getIdFromFile"
    /\ idTask' = Settled(getIdFromFile(fileSystem, savedIdPath))
    /\ pc' = "returned"
    /\ UNCHANGED <<params, options, manifest, fileSystem, tmpDir, manifestData, buildTask,
                   signTask, saveTask, id, metaDataJson, result, calls, saved, logs, callback,
                   outcome>>

FileNext == GetIdFromFile

FileSpec == FileInit /\ [][FileNext]_vars

----------------------------------------------------------------------------
(* Properties of sign(): identity resolution and the checks before the     *)
(* dispatch                                                                *)

FailLine == LogLine("info", "FAIL", <<>>)

SuccessLine == LogLine("info", "SUCCESS", <<>>)

\* The three sources of the id.  "Present" is what the code tests: a value
\* that is neither undefined nor the empty string.
CliIdPresent == Truthy(params.id)

ManifestIdPresent == Truthy(manifest.id)

PersistedIdPresent == idTask.state = "fulfilled" /\ Truthy(idTask.value)

\* The build and the read of the id file have both succeeded and lines
\* 102-140 have run.
IdentityResolved ==
    /\ buildTask.state = "fulfilled"
    /\ idTask.state = "fulfilled"
    /\ pc # "resolveId"

IdentityErrorTexts ==
    {"Cannot set custom ID - addon submission API requires a custom ID be specified in the manifest",
     "Cannot use previously auto-generated extension ID - addon submission API requires a custom ID be specified in the manifest",
     "Cannot set custom ID because manifest.json declares ID"}

IdentityErrorRaised ==
    /\ callback.state = "rejected"
    /\ callback.error.type = "UsageError"
    /\ callback.error.message.text \in IdentityErrorTexts

IdentityMustFail ==
    \/ params.useSubmissionApi /\ ~ManifestIdPresent /\ (CliIdPresent \/ PersistedIdPresent)
    \/ CliIdPresent /\ ManifestIdPresent

\* C1: over every combination of CLI id, manifest id, persisted id and
\* backend, identity resolution fails exactly when (submission and no
\* manifest id and (CLI id or persisted id)) or (CLI id and manifest id);
\* otherwise the id handed to the signing backend is the manifest id if
\* present, else the CLI id if present, else the persisted id if present,
\* else no id, which is logged as a warning and is not a failure.
C1_IdentityResolution ==
    /\ IdentityErrorRaised => IdentityResolved
    /\ IdentityResolved =>
          IF IdentityMustFail
          THEN IdentityErrorRaised /\ calls = <<>>
          ELSE /\ ~IdentityErrorRaised
               /\ IF ManifestIdPresent THEN id = manifest.id
                  ELSE IF CliIdPresent THEN id = params.id
                  ELSE IF PersistedIdPresent THEN id = idTask.value
                  ELSE /\ ~Truthy(id)
                       /\ logs # <<>>
                       /\ logs[1] = LogLine("warn",
                              "No extension ID specified (it will be auto-generated)", <<>>)
               /\ \A i \in 1..Len(calls) : calls[i].id = id

C1_Witness ==
    /\ IdentityResolved
    /\ params.useSubmissionApi /\ ~ManifestIdPresent /\ ~CliIdPresent /\ PersistedIdPresent
    /\ IdentityErrorRaised
    /\ outcome.state = "rejected"

\* A usage error has been raised in sign(): by getIdFromFile, or thrown out
\* of the callback.
UsageErrorRaised ==
    \/ idTask.state = "rejected" /\ idTask.error.type = "UsageError"
    \/ callback.state = "rejected" /\ callback.error.type = "UsageError"

\* C2: in an execution in which sign() raises a usage error, signAddon and
\* submitAddon have not been called before it and are not called after it.
C2_NoSigningWithUsageError == UsageErrorRaised => calls = <<>>

C2_Witness ==
    /\ outcome.state = "rejected"
    /\ outcome.error = UsageError(Message("Invalid JSON in listing metadata", <<>>, ""))
    /\ calls = <<>>

\* C3: with useSubmissionApi, when channel is unset or apiProxy is set,
\* sign() fails and calls neither submitAddon nor signAddon, whatever the
\* CLI id, the manifest id and the persisted id are.
C3_SubmissionNeedsChannelAndNoProxy ==
    (params.useSubmissionApi /\ (~Truthy(params.channel) \/ Truthy(params.apiProxy))) =>
        /\ calls = <<>>
        /\ pc \notin {"metadata", "dispatch", "awaitBackend", "awaitSave"}
        /\ callback.state # "fulfilled"
        /\ outcome.state # "fulfilled"
        /\ pc = "exited" => callback.state = "rejected"

C3_Witness ==
    /\ params.useSubmissionApi /\ Truthy(params.channel) /\ Truthy(params.apiProxy)
    /\ IdentityResolved /\ ~IdentityMustFail
    /\ outcome.state = "rejected"
    /\ outcome.error.type = "UsageError"
    /\ outcome.error.message.text = "apiProxy isn't yet supported for the addon submission API"

\* signAddon has returned, and with which success flag.
SignAddonReturned(success) ==
    /\ ~params.useSubmissionApi
    /\ signTask.state = "fulfilled"
    /\ signTask.value.success = success

\* C4: on the legacy backend, when signAddon returns success false without
\* throwing, FAIL is logged, sign() throws a WebExtError, and saveIdToFile
\* is never called.
C4_LegacyNotSigned ==
    SignAddonReturned(FALSE) =>
        /\ callback = Rejected(WebExtError(Message("The extension could not be signed", <<>>, "")))
        /\ logs # <<>>
        /\ logs[Len(logs)] = FailLine
        /\ \A i \in 1..Len(logs) : logs[i] # SuccessLine
        /\ saved = <<>>

C4_Witness ==
    /\ SignAddonReturned(FALSE)
    /\ outcome.state = "rejected"
    /\ outcome.error.type = "WebExtError"

\* C5: on the legacy backend, when signAddon reports success, saveIdToFile
\* is called for <sourceDir>/.web-extension-id with the id signAddon
\* returned, also when it differs from the id resolved locally; when sign()
\* returns, the file holds that id and the result carries it.
C5_LegacySavesReturnedId ==
    SignAddonReturned(TRUE) =>
        /\ saved = <<[by |-> "sign", filePath |-> "src/.web-extension-id",
                      id |-> signTask.value.id]>>
        /\ callback.state # "rejected" => result.id = signTask.value.id
        /\ callback.state = "fulfilled" =>
              /\ callback.value.id = signTask.value.id
              /\ fileSystem["src/.web-extension-id"] = ReadableFile(TextOf(signTask.value.id))

C5_Witness ==
    /\ SignAddonReturned(TRUE)
    /\ Truthy(id)
    /\ signTask.value.id # id
    /\ outcome.state = "fulfilled"
    /\ outcome.value.id = signTask.value.id

----------------------------------------------------------------------------
(* Properties of sign(): the markers, the errors and the temporary         *)
(* directory                                                               *)

Count(line) == Cardinality({i \in 1..Len(logs) : logs[i] = line})

IdLogged == \E i \in 1..Len(logs) : logs[i].message.text = "Extension ID"

\* C6 as the specification states it: every invocation ends with exactly
\* one of FAIL followed by an error, or SUCCESS together with the id log.
C6_OneMarkerOnEveryPath ==
    outcome.state # "pending" =>
        \/ outcome.state = "rejected" /\ Count(FailLine) = 1 /\ Count(SuccessLine) = 0
        \/ /\ outcome.state = "fulfilled"
           /\ Count(SuccessLine) = 1 /\ Count(FailLine) = 0 /\ IdLogged

\* C6, amended: an invocation never logs both markers nor one marker
\* twice.  FAIL is logged, last and followed by a WebExtError, exactly when
\* the invocation fails after a signing backend was called; the id and then
\* SUCCESS are logged, last, exactly when the invocation succeeds on the
\* legacy backend.  An invocation that fails before the dispatch logs
\* neither, and so does sign() itself on the success of submitAddon.
C6_MarkersOfTheDispatch ==
    callback.state # "pending" =>
        /\ Count(FailLine) + Count(SuccessLine) <= 1
        /\ Count(FailLine) = 1 <=> (callback.state = "rejected" /\ calls # <<>>)
        /\ Count(FailLine) = 1 =>
              logs[Len(logs)] = FailLine /\ callback.error.type = "WebExtError"
        /\ Count(SuccessLine) = 1 <=>
              (callback.state = "fulfilled" /\ ~params.useSubmissionApi)
        /\ Count(SuccessLine) = 1 =>
              /\ Len(logs) >= 2
              /\ logs[Len(logs)] = SuccessLine
              /\ logs[Len(logs) - 1] = LogLine("info", "Extension ID", <<callback.value.id>>)
        /\ IdLogged => Count(SuccessLine) = 1

C6_Witness ==
    /\ outcome.state = "rejected"
    /\ calls # <<>>
    /\ Count(FailLine) = 1
    /\ Count(SuccessLine) = 0

\* The checks of lines 102-154 have passed and lines 156-164 have run.
MetadataStepDone ==
    /\ IdentityResolved
    /\ ~IdentityMustFail
    /\ ~(params.useSubmissionApi /\ (~Truthy(params.channel) \/ Truthy(params.apiProxy)))
    /\ pc \notin {"checkSubmissionParams", "metadata"}

\* amoMetadata names a readable file that JSON.parse rejects.
MetadataIsInvalidJson ==
    /\ Truthy(params.amoMetadata)
    /\ fileSystem[params.amoMetadata].readable
    /\ JSONparse(toString(fileSystem[params.amoMetadata].content)).throws

MetadataIsUnreadable ==
    /\ Truthy(params.amoMetadata)
    /\ ~fileSystem[params.amoMetadata].readable

InvalidJsonError == UsageError(Message("Invalid JSON in listing metadata", <<>>, ""))

\* The callback was rejected by the failure of the build.
BuildFailedFirst ==
    /\ buildTask.state = "rejected"
    /\ idTask.state # "rejected"

NoFailLogged == Count(FailLine) = 0

\* C7 as the specification states it: an exception of the build, of the
\* signing backend call or of the parsing of the metadata becomes a
\* WebExtError with the original message, after FAIL is logged.
C7_EveryExceptionNormalized ==
    /\ BuildFailedFirst =>
          /\ callback = Rejected(WebExtError(buildTask.error.message))
          /\ Count(FailLine) = 1
    /\ signTask.state = "rejected" =>
          /\ callback = Rejected(WebExtError(signTask.error.message))
          /\ Count(FailLine) = 1
    /\ (MetadataStepDone /\ MetadataIsInvalidJson) =>
          /\ callback.state = "rejected"
          /\ callback.error.type = "WebExtError"
          /\ callback.error.message = Message("Unexpected token in JSON", <<>>, "")
          /\ Count(FailLine) = 1

\* C7, amended: an exception thrown by the signing backend call becomes a
\* WebExtError carrying the original message, after FAIL is logged.  An
\* exception of the build is thrown on as it is, and a failure to parse the
\* metadata becomes a UsageError with the fixed message "Invalid JSON in
\* listing metadata"; no FAIL is logged before either.
C7_BackendExceptionNormalized ==
    /\ signTask.state = "rejected" =>
          /\ callback = Rejected(WebExtError(signTask.error.message))
          /\ logs # <<>>
          /\ logs[Len(logs)] = FailLine
    /\ BuildFailedFirst => callback = Rejected(buildTask.error) /\ NoFailLogged
    /\ (MetadataStepDone /\ MetadataIsInvalidJson) =>
          callback = Rejected(InvalidJsonError) /\ NoFailLogged

C7_Witness ==
    /\ signTask.state = "rejected"
    /\ signTask.error.type = "Error"
    /\ outcome = Rejected(WebExtError(signTask.error.message))
    /\ logs[Len(logs)] = FailLine

\* C8: when the checks before it have passed and amoMetadata names a
\* readable file that is not valid JSON, sign() fails with the usage error
\* "Invalid JSON in listing metadata", and no backend is ever called; a
\* failure to read the file is thrown as the read error itself, not as that
\* usage error.
C8_InvalidMetadataJson ==
    /\ (MetadataIsInvalidJson \/ MetadataIsUnreadable) => calls = <<>>
    /\ (MetadataStepDone /\ MetadataIsInvalidJson) => callback = Rejected(InvalidJsonError)
    /\ (MetadataStepDone /\ MetadataIsUnreadable) =>
          /\ callback = Rejected(fileSystem[params.amoMetadata].error)
          /\ callback.error # InvalidJsonError

C8_Witness ==
    /\ MetadataStepDone
    /\ MetadataIsInvalidJson
    /\ outcome = Rejected(InvalidJsonError)

\* C9: when an invocation of sign() has ended, with a result or with any
\* error, the temporary build directory has been removed.
C9_TempDirRemoved == outcome.state # "pending" => tmpDir = "removed"

C9_Witness ==
    /\ outcome.state = "rejected"
    /\ signTask.state = "rejected"
    /\ tmpDir = "removed"

----------------------------------------------------------------------------
(* Properties of getIdFromFile() *)

\* C10: when the read fails with ENOENT, getIdFromFile returns undefined;
\* when it fails with any other error, getIdFromFile throws that very
\* error.
C10_MissingIdFile ==
    (idTask.state \in {"fulfilled", "rejected"} /\ ~fileSystem[savedIdPath].readable) =>
        IF fileSystem[savedIdPath].error.code = "ENOENT"
        THEN idTask = Fulfilled(undefined)
        ELSE idTask = Rejected(fileSystem[savedIdPath].error)

C10_Witness ==
    /\ pc = "returned"
    /\ ~fileSystem[savedIdPath].readable
    /\ fileSystem[savedIdPath].error.code = "ENOENT"
    /\ idTask = Fulfilled(undefined)

\* The text of the id file, and the positions of it that hold the first
\* character of a line that is not white space.
IdFileText == toString(fileSystem[savedIdPath].content)

FirstOfLine(text, i) ==
    /\ text[i] \notin WhiteSpace
    /\ \A j \in 1..(i - 1) :
          (\A k \in j..(i - 1) : text[k] # "\n") => text[j] \in WhiteSpace

\* The positions at which a line that is neither blank nor a comment starts.
MeaningfulStarts(text) ==
    {i \in 1..Len(text) : FirstOfLine(text, i) /\ text[i] # "#"}

GetIdFromFileRead ==
    /\ idTask.state \in {"fulfilled", "rejected"}
    /\ fileSystem[savedIdPath].readable

\* C11: on a readable file in which every line is blank or a comment after
\* trimming, the empty file included, getIdFromFile throws the usage error
\* that names the path of the file; it returns neither undefined nor an
\* empty id.
C11_NoIdInFile ==
    (GetIdFromFileRead /\ MeaningfulStarts(IdFileText) = {}) =>
        idTask = Rejected(UsageError(Message("No ID found in extension ID file", <<>>,
                                             "src/.web-extension-id")))

C11_Witness ==
    /\ pc = "returned"
    /\ fileSystem[savedIdPath].readable
    /\ IdFileText = <<" ", "#", "a">>
    /\ idTask.state = "rejected"
    /\ idTask.error.type = "UsageError"
    /\ idTask.error.message.path = "src/.web-extension-id"

\* The first line that is neither blank nor a comment, trimmed.
FirstMeaningfulLine(text) ==
    LET first == CHOOSE i \in MeaningfulStarts(text) :
                     \A j \in MeaningfulStarts(text) : i <= j
        last == CHOOSE l \in first..Len(text) :
                    /\ text[l] \notin WhiteSpace
                    /\ \A k \in first..l : text[k] # "\n"
                    /\ \A m \in (l + 1)..Len(text) :
                          (\A k \in first..m : text[k] # "\n") => text[m] \in WhiteSpace
    IN  SubSeq(text, first, last)

\* C12: getIdFromFile returns the first line of the file that is neither
\* blank nor a comment after trimming, with its leading and trailing white
\* space trimmed; the meaningful lines after it are ignored.
C12_FirstLineTrimmed ==
    (GetIdFromFileRead /\ MeaningfulStarts(IdFileText) # {}) =>
        idTask = Fulfilled(Str(FirstMeaningfulLine(IdFileText)))

----------------------------------------------------------------------------
(* Properties of sign(): the order of the checks, the concurrency of the   *)
(* build and the read, the dispatch                                        *)

ConflictError ==
    UsageError(Message("Cannot set custom ID because manifest.json declares ID",
                       <<params.id, manifest.id>>, ""))

\* C13: when a CLI id and a manifest id are both present, also when the two
\* are the same text, sign() fails on both backends with the usage error of
\* the conflict and no signing backend is called.
C13_IdConflict ==
    (CliIdPresent /\ ManifestIdPresent) =>
        /\ calls = <<>>
        /\ callback.state # "fulfilled"
        /\ IdentityResolved => callback = Rejected(ConflictError)

C13_Witness ==
    /\ CliIdPresent
    /\ params.id = manifest.id
    /\ params.useSubmissionApi
    /\ outcome = Rejected(ConflictError)

\* The error of the first failing check, in the order (1) submission with a
\* CLI id and no manifest id, (2) submission with a persisted id and no
\* manifest id, (3) CLI id with manifest id, (4) submission without channel,
\* (5) submission with a proxy.
SomeCheckFails ==
    \/ IdentityMustFail
    \/ params.useSubmissionApi /\ (~Truthy(params.channel) \/ Truthy(params.apiProxy))

FirstError ==
    IF params.useSubmissionApi /\ CliIdPresent /\ ~ManifestIdPresent
    THEN UsageError(Message(
             "Cannot set custom ID - addon submission API requires a custom ID be specified in the manifest",
             <<params.id>>, ""))
    ELSE IF params.useSubmissionApi /\ PersistedIdPresent /\ ~ManifestIdPresent
    THEN UsageError(Message(
             "Cannot use previously auto-generated extension ID - addon submission API requires a custom ID be specified in the manifest",
             <<idTask.value>>, ""))
    ELSE IF CliIdPresent /\ ManifestIdPresent
    THEN ConflictError
    ELSE IF params.useSubmissionApi /\ ~Truthy(params.channel)
    THEN UsageError(Message(
             "channel is a required parameter for the addon submission API", <<>>, ""))
    ELSE UsageError(Message(
             "apiProxy isn't yet supported for the addon submission API", <<>>, ""))

\* C14: when several of the checks of lines 104-154 fail in one invocation,
\* the error sign() reports is that of the first in the order above; an
\* error of the ids comes before an error of channel or proxy.
C14_FirstErrorWins ==
    (IdentityResolved /\ pc # "checkSubmissionParams" /\ SomeCheckFails) =>
        callback = Rejected(FirstError)

C14_Witness ==
    /\ params.useSubmissionApi /\ ~ManifestIdPresent /\ ~CliIdPresent /\ PersistedIdPresent
    /\ ~Truthy(params.channel) /\ Truthy(params.apiProxy)
    /\ outcome = Rejected(FirstError)
    /\ outcome.error.message.ids = <<idTask.value>>

AfterPromiseAll ==
    pc \in {"resolveId", "checkSubmissionParams", "metadata", "dispatch", "awaitBackend",
            "awaitSave"}

BothFulfilled == buildTask.state = "fulfilled" /\ idTask.state = "fulfilled"

\* C15: the build and the read of the id file are started together, and
\* lines 102-140 do not run before both have fulfilled, in whatever order
\* they settle; when one of them fails the invocation fails with that error,
\* without any resolution of the id and without any call to a backend.
C15_BothBeforeResolution ==
    /\ buildTask.state = "notStarted" <=> idTask.state = "notStarted"
    /\ AfterPromiseAll => BothFulfilled
    /\ (logs # <<>> \/ id # params.id \/ calls # <<>> \/ IdentityErrorRaised) => BothFulfilled
    /\ (buildTask.state = "rejected" \/ idTask.state = "rejected") =>
          /\ pc = "exited"
          /\ callback.state = "rejected"
          /\ \/ buildTask.state = "rejected" /\ callback.error = buildTask.error
             \/ idTask.state = "rejected" /\ callback.error = idTask.error
          /\ calls = <<>>
          /\ logs = <<>>
          /\ id = params.id

C15_Witness ==
    /\ idTask.state = "fulfilled"
    /\ buildTask.state = "rejected"
    /\ outcome = Rejected(buildTask.error)
    /\ calls = <<>>

\* C16: an invocation calls a signing backend at most once: never both
\* signAddon and submitAddon, never one of them again after a failure, and
\* submitAddon exactly when useSubmissionApi is set.
C16_OneBackendCall ==
    /\ Len(calls) <= 1
    /\ \A i \in 1..Len(calls) :
          calls[i].fn = IF params.useSubmissionApi THEN "submitAddon" ELSE "signAddon"
    /\ signTask.state # "notStarted" => Len(calls) = 1
    /\ signTask.state = "rejected" => pc = "exited"

C16_Witness ==
    /\ signTask.state = "rejected"
    /\ outcome.state = "rejected"
    /\ Len(calls) = 1
    /\ calls[1].fn = "submitAddon"

\* C17: on the submission backend sign() never calls saveIdToFile, whether
\* submitAddon succeeds or fails; it only hands savedIdPath to submitAddon.
C17_SubmissionDoesNotSave ==
    params.useSubmissionApi =>
        /\ \A i \in 1..Len(saved) : saved[i].by # "sign"
        /\ saveTask = NotStarted
        /\ pc # "awaitSave"
        /\ \A i \in 1..Len(calls) : calls[i].savedIdPath = "src/.web-extension-id"

C17_Witness ==
    /\ params.useSubmissionApi
    /\ outcome.state = "fulfilled"
    /\ calls[1].savedIdPath = "src/.web-extension-id"
    /\ Len(saved) = 1
    /\ saved[1].by = "submitAddon"

\* C18: the temporary directory is not removed while the build that writes
\* into it is still running.
C18_NoRemovalDuringBuild == tmpDir = "removed" => buildTask.state # "pending"

\* C19: on the legacy backend the id and SUCCESS are logged only once
\* saveIdToFile has written the file; when it fails after signAddon reported
\* success, SUCCESS is not logged, FAIL is, and sign() throws a WebExtError
\* with the message of the write error.
C19_SuccessAfterSave ==
    /\ (Count(SuccessLine) > 0 \/ IdLogged) =>
          /\ saveTask.state = "fulfilled"
          /\ fileSystem[savedIdPath] = ReadableFile(TextOf(result.id))
    /\ saveTask.state = "pending" => Count(SuccessLine) = 0 /\ ~IdLogged
    /\ saveTask.state = "rejected" =>
          /\ SignAddonReturned(TRUE)
          /\ Count(SuccessLine) = 0
          /\ ~IdLogged
          /\ logs # <<>>
          /\ logs[Len(logs)] = FailLine
          /\ callback = Rejected(WebExtError(saveTask.error.message))

C19_Witness ==
    /\ SignAddonReturned(TRUE)
    /\ saveTask.state = "rejected"
    /\ saveTask.error.code = "EIO"
    /\ outcome = Rejected(WebExtError(saveTask.error.message))

\* C20: whenever submitAddon is called, channel is set, apiProxy is unset,
\* and the id it is given is the id of the manifest, or no id when the CLI
\* id, the manifest id and the persisted id are all absent; a CLI id or a
\* persisted id is never given to the submission backend.
C20_SubmitAddonArguments ==
    \A i \in 1..Len(calls) :
        calls[i].fn = "submitAddon" =>
            /\ Truthy(calls[i].channel)
            /\ ~Truthy(params.apiProxy)
            /\ IF ManifestIdPresent
               THEN calls[i].id = manifest.id
               ELSE ~Truthy(calls[i].id) /\ ~CliIdPresent /\ ~PersistedIdPresent

C20_Witness ==
    /\ calls # <<>>
    /\ calls[1].fn = "submitAddon"
    /\ PersistedIdPresent
    /\ calls[1].id = manifest.id
    /\ Truthy(calls[1].id)

====
